---- MODULE Spec2Model ----
(***************************************************************************)
(* Reminder delivery pipeline of the ai-life-companion API:                *)
(*   - the due-reminder scanner   (app/tasks/reminders.py,                 *)
(*                                 schedule_due_reminders)                 *)
(*   - the delivery worker        (app/tasks/reminders.py,                 *)
(*                                 deliver_reminder, attempt_delivery,     *)
(*                                 dispatch_notifications)                 *)
(*   - the cancel endpoint        (app/api/routers/reminders.py,           *)
(*                                 cancel_reminder)                        *)
(* and, each under a specification of its own (ParseSpec, RateSpec):       *)
(*   - the time parser            (app/utils/datetime.py,                  *)
(*                                 parse_user_time_to_utc)                 *)
(*   - the rate limiter           (app/services/rate_limiter.py,           *)
(*                                 RateLimiter.check)                      *)
(* Time is in whole seconds.  A database transaction is modelled by the    *)
(* row locks it holds and the columns it writes at commit (the ORM emits   *)
(* UPDATEs for the changed columns only, under READ COMMITTED).            *)
(***************************************************************************)
EXTENDS Integers, Sequences, FiniteSets, Bags, TLC

\* ---------------------------------------------------------------------------
\* Program constants
\* ---------------------------------------------------------------------------
MAX_RETRIES == 5
MinDelay == 60
BackoffBase == 60
BackoffCap == 3600

\* ---------------------------------------------------------------------------
\* Bounds of the model
\* ---------------------------------------------------------------------------
\* number of disturbances explored in one run: scanner passes started while
\* every due reminder has a pending invocation, task starts that read a
\* trailing clock, cancel requests, process crashes
MaxDisturbances == 1
\* seconds by which a worker host's clock can trail the beat host's
ClockSkew == 930

\* ---------------------------------------------------------------------------
\* Universe
\* ---------------------------------------------------------------------------
Rids == {"r1", "r2"}
Users == {"u1", "u2"}
Workers == {"w1", "w2"}
Scanners == {"s1", "s2"}

SCHEDULED == "scheduled"
SENT == "sent"
CANCELED == "canceled"
ERROR == "error"
ReminderStatusEnum == {SCHEDULED, SENT, CANCELED, ERROR}

\* Optional values: None is the empty tuple (a missing or empty value, which
\* the code tests alike with `if not x`), Some(x) the one-element tuple.
None == <<>>
Some(x) == <<x>>
Val(o) == o[1]

Max2(a, b) == IF a >= b THEN a ELSE b
Min2(a, b) == IF a <= b THEN a ELSE b

RECURSIVE Pow2(_)
Pow2(n) == IF n = 0 THEN 1 ELSE 2 * Pow2(n - 1)

VARIABLES
    clock,      \* wall-clock time of the beat host
    store,      \* reminders table: Rids -> row
    users,      \* users table: Users -> [email, push_token]
    flag,       \* feature flag multi_channel_notifications
    failed_jobs,\* failed_jobs table (dead-letter log), in insertion order
    queue,      \* task queue: bag of pending deliver_reminder messages
    locks,      \* row locks on the reminders table: Rids -> holder
    scanner,    \* Scanners -> state of one schedule_due_reminders pass
    worker,     \* Workers -> state of one deliver_reminder invocation
    cancel,     \* state of one cancel_reminder request
    metrics,    \* METRICS counters
    last,       \* what the task or request that finished in this step returned
    scans,      \* number of scanner passes started with nothing to rescue
    lagReads,   \* number of task starts that read a trailing clock
    cancels,    \* number of cancel requests received
    crashes,    \* number of scanner and worker processes that died mid-task
    hist,       \* per reminder: history of what happened to it
    text,       \* parse_user_time_to_utc: what the user's text names
    now_local,  \* parse_user_time_to_utc: the caller's local now
    parse_out,  \* parse_user_time_to_utc: what the call returned or raised
    config,     \* RateLimiter._config
    redis,      \* the two window keys of one identifier: count and time to live
    caller,     \* Callers -> position of one RateLimiter.check call
    admitted,   \* per window key: calls counted in its lifetime that returned
    rl_last     \* what the RateLimiter.check call that finished in this step did

reminderVars == <<clock, store, users, flag, failed_jobs, queue, locks,
                  scanner, worker, cancel, metrics, last, scans, lagReads,
                  cancels, crashes, hist>>

parseVars == <<text, now_local, parse_out>>

rateVars == <<config, redis, caller, admitted, rl_last>>

vars == <<reminderVars, parseVars, rateVars>>

Free == "free"

\* ---------------------------------------------------------------------------
\* Initial state
\* ---------------------------------------------------------------------------
\* r1 (of u1, due at 60) is SCHEDULED and was created without a correlation
\* id, as chat_orchestrator creates reminders; r2 (of u2, due at 30) was
\* canceled by its owner before it came due.
InitStore ==
    [r \in Rids |->
        [status |-> IF r = "r1" THEN SCHEDULED ELSE CANCELED,
         user_id |-> IF r = "r1" THEN "u1" ELSE "u2",
         run_ts |-> IF r = "r1" THEN 60 ELSE 30,
         utc_ts |-> IF r = "r1" THEN Some(60) ELSE Some(30),
         correlation_id |-> IF r = "r1" THEN None ELSE Some("cid-r2"),
         last_attempt_at |-> None,
         sent_at |-> None]]

\* u1 has no destination, a push token only, or an email address and a push
\* token; u2 has no destination.
UserConfigs ==
    { [u \in Users |-> IF u = "u1" THEN [email |-> c[1], push_token |-> c[2]]
                                   ELSE [email |-> FALSE, push_token |-> FALSE]]
      : c \in {<<FALSE, FALSE>>, <<FALSE, TRUE>>, <<TRUE, TRUE>>} }

BucketNames == {"le_30s", "le_1m", "le_2m", "le_5m", "le_10m", "le_inf"}

InitMetrics ==
    [reminder_sent |-> 0,
     reminder_error |-> 0,
     reminder_canceled |-> 0,
     reminder_latency_count |-> 0,
     reminder_latency_sum |-> 0,
     bucket |-> [b \in BucketNames |-> 0]]

IdleScanner == [pc |-> "idle", now |-> 0, scheduled_ids |-> {}]

IdleWorker == [pc |-> "idle", rid |-> "r1", retries |-> 0, trace_id |-> None,
               now |-> 0, cid |-> None, exc |-> "none", early |-> FALSE,
               sent |-> <<>>]

IdleCancel == [pc |-> "idle", rid |-> "r1"]

NoReturn == [task |-> "none", rid |-> "r1", result |-> "none", count |-> 0,
             cid |-> None]

InitHist == [r \in Rids |-> [chains |-> 0, failures |-> 0, early |-> FALSE,
                             calls |-> 0, oks |-> 0, dispatched |-> 0,
                             backoffs |-> <<>>]]

\* r3 was enqueued for a retry and its row has been deleted since (rows go
\* with their user: reminders.user_id is ON DELETE CASCADE); its invocation
\* is still in the queue.
VanishedRid == "r3"

StaleMessage == [rid |-> VanishedRid, retries |-> 1, trace_id |-> Some("cid-r3"),
                 eta |-> 60]

InitQueues == {EmptyBag, SetToBag({StaleMessage})}

\* ---------------------------------------------------------------------------
\* Time parsing and rate limiting: values and states before a call
\* ---------------------------------------------------------------------------
\* The calendar is cut down to years of DaysPerYear days and days of
\* SlotsPerDay slots (six hours each with four slots).
DaysPerYear == 3

SlotsPerDay == 4

ThisYear == 2025

Years == {ThisYear - 1, ThisYear, ThisYear + 1}

Days == 1..DaysPerYear

Slots == 0..(SlotsPerDay - 1)

\* LOCAL_TZ = ZoneInfo("America/Chicago"): six hours (one slot) behind UTC
LOCAL_TZ == -1

\* UTC_TZ = ZoneInfo("UTC")
UTC_TZ == 0

\* an aware datetime
DateTime(year, day, slot, tz) ==
    [year |-> year, day |-> day, slot |-> slot, tz |-> tz]

\* What a text names: a time of day ("3pm"), a full date with a four-digit
\* year and a time ("October 10, 2023 9am"), or nothing that is a time.
Texts ==
    {[form |-> "time", year |-> 0, day |-> 0, slot |-> sl] : sl \in Slots}
    \cup {[form |-> "date", year |-> y, day |-> d, slot |-> sl] :
              y \in Years, d \in Days, sl \in Slots}
    \cup {[form |-> "other", year |-> 0, day |-> 0, slot |-> 0]}

\* now_local values: any slot of any day of this year, in LOCAL_TZ
LocalNows == {DateTime(ThisYear, d, sl, LOCAL_TZ) : d \in Days, sl \in Slots}

NoOutcome == [kind |-> "pending", value |-> DateTime(0, 0, 0, UTC_TZ)]

ParseAtRest ==
    /\ text = [form |-> "other", year |-> 0, day |-> 0, slot |-> 0]
    /\ now_local = DateTime(ThisYear, 1, 0, LOCAL_TZ)
    /\ parse_out = NoOutcome

\* Largest limits of the RateLimitConfig values the limiter is built with,
\* the two window lengths (in time units), and the largest count a window
\* key is let reach.
MaxBurstLimit == 2

MaxSustainedLimit == 3

BurstWindow == 1

SustainedWindow == 3

MaxCount == 5

Callers == {"c1", "c2"}

Keys == {"burst", "sustained"}

\* RateLimitConfig(burst_limit, burst_window_seconds, sustained_limit,
\*                 sustained_window_seconds)
RateLimitConfig(bl, bw, sl, sw) ==
    [burst_limit |-> bl, burst_window_seconds |-> bw,
     sustained_limit |-> sl, sustained_window_seconds |-> sw]

RateLimitConfigs ==
    {RateLimitConfig(bl, BurstWindow, sl, SustainedWindow) :
         bl \in 1..MaxBurstLimit, sl \in 2..MaxSustainedLimit}

\* a key that does not exist: no count, TTL -2; a key without expiry has
\* TTL -1
MissingKey == [count |-> 0, ttl |-> -2]

EmptyRedis == [k \in Keys |-> MissingKey]

IdleCaller == [pc |-> "idle", current |-> 0,
               counted |-> [k \in Keys |-> FALSE]]

NoResult == [caller |-> "none", result |-> "none", window |-> "none"]

RateAtRest ==
    /\ config = RateLimitConfig(1, BurstWindow, 2, SustainedWindow)
    /\ redis = EmptyRedis
    /\ caller = [c \in Callers |-> IdleCaller]
    /\ admitted = [k \in Keys |-> 0]
    /\ rl_last = NoResult

\* the reminder tables, queue and processes before anything was scheduled
ReminderAtRest ==
    /\ clock = 0
    /\ store = InitStore
    /\ users = [u \in Users |-> [email |-> FALSE, push_token |-> FALSE]]
    /\ flag = TRUE
    /\ failed_jobs = <<>>
    /\ queue = EmptyBag
    /\ locks = [r \in Rids |-> Free]
    /\ scanner = [s \in Scanners |-> IdleScanner]
    /\ worker = [w \in Workers |-> IdleWorker]
    /\ cancel = IdleCancel
    /\ metrics = InitMetrics
    /\ last = NoReturn
    /\ scans = 0
    /\ lagReads = 0
    /\ cancels = 0
    /\ crashes = 0
    /\ hist = InitHist

Init ==
    /\ ParseAtRest
    /\ RateAtRest
    /\ clock = 0
    /\ store = InitStore
    /\ users \in UserConfigs
    /\ flag \in BOOLEAN
    /\ (~flag => users["u1"].email)
    /\ failed_jobs = <<>>
    /\ queue \in InitQueues
    /\ locks = [r \in Rids |-> Free]
    /\ scanner = [s \in Scanners |-> IdleScanner]
    /\ worker = [w \in Workers |-> IdleWorker]
    /\ cancel = IdleCancel
    /\ metrics = InitMetrics
    /\ last = NoReturn
    /\ scans = 0
    /\ lagReads = 0
    /\ cancels = 0
    /\ crashes = 0
    /\ hist = InitHist

\* ---------------------------------------------------------------------------
\* Time
\* ---------------------------------------------------------------------------
\* Instants at which something becomes due: a reminder's target time or the
\* eta of a queued invocation.
EventTimes ==
    {Val(store[r].utc_ts) : r \in {x \in DOMAIN store : store[x].utc_ts # None}}
        \cup {m.eta : m \in BagToSet(queue)}

\* Tasks and requests take milliseconds, countdowns at least a minute: time
\* moves on to the next timer when nothing is running and nothing is ready.
Quiescent ==
    /\ \A w \in Workers : worker[w].pc = "idle"
    /\ \A s \in Scanners : scanner[s].pc = "idle"
    /\ cancel.pc = "idle"
    /\ \A m \in BagToSet(queue) : m.eta > clock

Tick ==
    /\ Quiescent
    /\ \E t \in EventTimes :
          /\ t > clock
          /\ \A u \in EventTimes : u > clock => t <= u
          /\ clock' = t
    /\ last' = NoReturn
    /\ UNCHANGED <<parseVars, rateVars>>
    /\ UNCHANGED <<store, users, flag, failed_jobs, queue, locks, scanner,
                   worker, cancel, metrics, scans, lagReads, cancels, crashes, hist>>

Disturbances == scans + lagReads + cancels + crashes

\* datetime.now(timezone.utc) as a worker host can read it: the beat host's
\* time, or a time trailing it while the host's clock is uncorrected
ClockReads ==
    {clock} \cup (IF Disturbances < MaxDisturbances THEN {clock - ClockSkew}
                  ELSE {})

\* str(uuid.uuid4()): a fresh identifier, distinct per generating process
Uuid4(p) == "uuid4-" \o p

\* ---------------------------------------------------------------------------
\* Task queue
\* ---------------------------------------------------------------------------
Message(rid, retries, trace_id, countdown) ==
    [rid |-> rid, retries |-> retries, trace_id |-> trace_id,
     eta |-> clock + countdown]

Enqueue(q, msgs) == q (+) SetToBag(msgs)

Ready(m) == BagIn(m, queue) /\ m.eta <= clock

MessagesFor(q, r) == {m \in BagToSet(q) : m.rid = r}

RECURSIVE SumCopies(_, _)
SumCopies(q, ms) ==
    IF ms = {} THEN 0
    ELSE LET m == CHOOSE x \in ms : TRUE
         IN CopiesIn(m, q) + SumCopies(q, ms \ {m})

\* number of queued invocations for reminder r
QueuedFor(q, r) == SumCopies(q, MessagesFor(q, r))

\* ---------------------------------------------------------------------------
\* Due-reminder scanner: schedule_due_reminders / send_due_reminders
\* ---------------------------------------------------------------------------
\* variant of the select below that waits for no lock and skips none
DueRemindersIgnoringLocks(current_time) ==
    {r \in DOMAIN store :
        /\ store[r].status = SCHEDULED
        /\ store[r].utc_ts # None
        /\ Val(store[r].utc_ts) <= current_time}

\* variant of the select below that takes a reminder only the first time
DueRemindersNeverClaimed(current_time) ==
    {r \in DOMAIN store :
        /\ store[r].status = SCHEDULED
        /\ store[r].utc_ts # None
        /\ Val(store[r].utc_ts) <= current_time
        /\ store[r].last_attempt_at = None
        /\ locks[r] = Free}

\* variant of the select below without its status filter
DueRemindersAnyStatus(current_time) ==
    {r \in DOMAIN store :
        /\ store[r].utc_ts # None
        /\ Val(store[r].utc_ts) <= current_time
        /\ locks[r] = Free}

\* select(Reminder).where(status == SCHEDULED).where(utc_ts <= current_time)
\*     .with_for_update(skip_locked=True)
DueReminders(current_time) ==
    {r \in DOMAIN store :
        /\ store[r].status = SCHEDULED
        /\ store[r].utc_ts # None
        /\ Val(store[r].utc_ts) <= current_time
        /\ locks[r] = Free}

\* variant of the assignment below that never generates an identifier
KeepCorrelation(s, r) == store[r].correlation_id

\* variant of the assignment below that always generates an identifier
FreshCorrelation(s, r) == Some(Uuid4(s))

\* if not reminder.correlation_id: reminder.correlation_id = str(uuid.uuid4())
AssignCorrelation(s, r) ==
    IF store[r].correlation_id = None THEN Some(Uuid4(s))
    ELSE store[r].correlation_id

\* deliver_reminder.apply_async(args=[str(reminder.id)],
\*                              kwargs={"trace_id": reminder.correlation_id})
ScanMessages(s, rows) == {Message(r, 0, AssignCorrelation(s, r), 0) : r \in rows}

\* The beat starts a pass every minute.  A pass has something to rescue when
\* a due SCHEDULED reminder has no committed claim yet, or has neither a
\* queued nor a running invocation.
PassNeeded ==
    \E r \in DOMAIN store :
        /\ store[r].status = SCHEDULED
        /\ store[r].utc_ts # None
        /\ Val(store[r].utc_ts) <= clock
        /\ \/ store[r].last_attempt_at = None
           \/ /\ QueuedFor(queue, r) = 0
              /\ \A w \in Workers : worker[w].pc = "idle" \/ worker[w].rid # r

\* the select and the loop over its rows, up to the flush
ScanBegin(s) ==
    /\ scanner[s].pc = "idle"
    /\ PassNeeded \/ Disturbances < MaxDisturbances
    /\ LET current_time == clock
           rows == DueReminders(current_time)
       IN /\ locks' = [r \in Rids |-> IF r \in rows THEN s ELSE locks[r]]
          /\ queue' = Enqueue(queue, ScanMessages(s, rows))
          /\ scanner' = [scanner EXCEPT ![s] =
                 [pc |-> "claimed", now |-> current_time,
                  scheduled_ids |-> rows]]
          /\ hist' = [r \in Rids |->
                 IF r \in rows
                 THEN [hist[r] EXCEPT !.chains = @ + 1]
                 ELSE hist[r]]
    /\ scans' = IF PassNeeded THEN scans ELSE scans + 1
    /\ last' = NoReturn
    /\ UNCHANGED <<parseVars, rateVars>>
    /\ UNCHANGED <<clock, store, users, flag, failed_jobs, worker, cancel,
                   metrics, lagReads, cancels, crashes>>

\* value returned by send_due_reminders: len(scheduled)
ScanResult(scheduled_ids) == Cardinality(scheduled_ids)

\* session.flush(); session.commit(); return scheduled_ids
ScanCommit(s) ==
    /\ scanner[s].pc = "claimed"
    /\ store' = [r \in DOMAIN store |->
           IF r \in scanner[s].scheduled_ids
           THEN [store[r] EXCEPT !.correlation_id = AssignCorrelation(s, r),
                                 !.last_attempt_at = Some(scanner[s].now)]
           ELSE store[r]]
    /\ locks' = [r \in Rids |-> IF locks[r] = s THEN Free ELSE locks[r]]
    /\ scanner' = [scanner EXCEPT ![s] = IdleScanner]
    /\ last' = [NoReturn EXCEPT !.task = "send_due_reminders",
                                !.count = ScanResult(scanner[s].scheduled_ids)]
    /\ UNCHANGED <<parseVars, rateVars>>
    /\ UNCHANGED <<clock, users, flag, failed_jobs, queue, worker, cancel,
                   metrics, scans, lagReads, cancels, crashes, hist>>

\* The scanner process dies after the loop and before the commit: the
\* database rolls the transaction back (row locks released, column writes
\* lost); what apply_async has sent to the broker stays there.
ScanCrash(s) ==
    /\ scanner[s].pc = "claimed"
    /\ Disturbances < MaxDisturbances
    /\ locks' = [r \in Rids |-> IF locks[r] = s THEN Free ELSE locks[r]]
    /\ scanner' = [scanner EXCEPT ![s] = IdleScanner]
    /\ crashes' = crashes + 1
    /\ last' = NoReturn
    /\ UNCHANGED <<parseVars, rateVars>>
    /\ UNCHANGED <<clock, store, users, flag, failed_jobs, queue, worker,
                   cancel, metrics, scans, lagReads, cancels, hist>>

\* ---------------------------------------------------------------------------
\* Cancel endpoint: cancel_reminder
\* ---------------------------------------------------------------------------
CancelReturn(r, result) ==
    [NoReturn EXCEPT !.task = "cancel_reminder", !.rid = r, !.result = result]

\* session.get and the checks on the loaded row
CancelLoad(r, u) ==
    /\ cancel.pc = "idle"
    /\ Disturbances < MaxDisturbances
    /\ cancels' = cancels + 1
    /\ IF r \notin DOMAIN store \/ store[r].user_id # u
       THEN /\ last' = CancelReturn(r, "not_found")
            /\ UNCHANGED cancel
       ELSE IF store[r].status \in {CANCELED, SENT, ERROR}
       THEN /\ last' = CancelReturn(r, "noop")
            /\ UNCHANGED cancel
       ELSE /\ cancel' = [pc |-> "commit", rid |-> r]
            /\ last' = NoReturn
    /\ UNCHANGED <<parseVars, rateVars>>
    /\ UNCHANGED <<clock, store, users, flag, failed_jobs, queue, locks,
                   scanner, worker, metrics, scans, lagReads, crashes, hist>>

\* reminder.status = CANCELED; session.add(reminder); session.commit()
CancelCommit ==
    /\ cancel.pc = "commit"
    /\ locks[cancel.rid] = Free
    /\ store' = [store EXCEPT ![cancel.rid].status = CANCELED]
    /\ cancel' = IdleCancel
    /\ last' = CancelReturn(cancel.rid, "canceled")
    /\ UNCHANGED <<parseVars, rateVars>>
    /\ UNCHANGED <<clock, users, flag, failed_jobs, queue, locks, scanner,
                   worker, metrics, scans, lagReads, cancels, crashes, hist>>

\* ---------------------------------------------------------------------------
\* Notification fan-out: dispatch_notifications
\* ---------------------------------------------------------------------------
\* deployment settings: both providers are configured
settings == [resend_api_key |-> TRUE, resend_from_email |-> TRUE,
             expo_access_token |-> TRUE]

email_possible(user) ==
    settings.resend_api_key /\ settings.resend_from_email /\ user.email

push_possible(user) == settings.expo_access_token /\ user.push_token

\* variant of the list below that stops at the first channel that succeeds
FirstSuccessAttempts(user, email_ok, push_ok) ==
    IF email_possible(user) /\ email_ok THEN <<email_ok>>
    ELSE (IF email_possible(user) THEN <<email_ok>> ELSE <<>>)
             \o (IF push_possible(user) THEN <<push_ok>> ELSE <<>>)

\* the list `attempts` of dispatch_notifications, given what each provider
\* answers (send_email_notification / send_push_notification return values)
ChannelAttempts(user, email_ok, push_ok) ==
    (IF email_possible(user) THEN <<email_ok>> ELSE <<>>)
        \o (IF push_possible(user) THEN <<push_ok>> ELSE <<>>)

\* variant of the test below that is satisfied by any attempt
AnyAttempt(seq) == seq # <<>>

\* any(attempts)
AnyTrue(seq) == \E i \in 1..Len(seq) : seq[i]

\* variant of the return value below that needs every attempted channel to
\* succeed
dispatch_all_required(user, email_ok, push_ok) ==
    IF ~flag THEN TRUE
    ELSE LET attempts == ChannelAttempts(user, email_ok, push_ok)
         IN IF attempts = <<>> THEN FALSE
            ELSE \A i \in 1..Len(attempts) : attempts[i]

\* variant of the return value below that reports success when no channel
\* could be attempted
dispatch_vacuous_success(user, email_ok, push_ok) ==
    IF ~flag THEN TRUE
    ELSE LET attempts == ChannelAttempts(user, email_ok, push_ok)
         IN IF attempts = <<>> THEN TRUE ELSE AnyTrue(attempts)

\* return value of dispatch_notifications
dispatch_notifications(user, email_ok, push_ok) ==
    IF ~flag THEN TRUE
    ELSE LET attempts == ChannelAttempts(user, email_ok, push_ok)
         IN IF attempts = <<>> THEN FALSE ELSE AnyTrue(attempts)

\* number of sends in a list of send results that returned True
Successes(seq) == Cardinality({i \in 1..Len(seq) : seq[i]})

\* channel sends actually made by one dispatch
ChannelCalls(user, email_ok, push_ok) ==
    IF ~flag THEN <<>> ELSE ChannelAttempts(user, email_ok, push_ok)

\* ---------------------------------------------------------------------------
\* Metrics: MetricsService.record_latency / increment_counter
\* ---------------------------------------------------------------------------
Buckets == {<<30, "le_30s">>, <<60, "le_1m">>, <<120, "le_2m">>,
            <<300, "le_5m">>, <<600, "le_10m">>}

record_latency(m, latency_seconds) ==
    [m EXCEPT
        !.bucket = [b \in BucketNames |->
            IF b = "le_inf"
               \/ \E t \in Buckets : t[2] = b /\ latency_seconds <= t[1]
            THEN m.bucket[b] + 1 ELSE m.bucket[b]],
        !.reminder_latency_count = @ + 1,
        !.reminder_latency_sum = @ + latency_seconds]

\* variant of the latency below measured from the previous attempt
LatencySinceLastAttempt(row, now) ==
    IF row.last_attempt_at # None THEN Max2(now - Val(row.last_attempt_at), 0)
    ELSE 0

\* latency = max((now - reminder.utc_ts).total_seconds(), 0.0)
\*           if reminder.utc_ts else 0.0
Latency(row, now) ==
    IF row.utc_ts # None THEN Max2(now - Val(row.utc_ts), 0) ELSE 0

\* ---------------------------------------------------------------------------
\* Delivery worker: deliver_reminder
\* ---------------------------------------------------------------------------
\* variant of the target time below that is the creation time of the row
TargetAtCreation(row) == 0

\* target_ts = reminder.utc_ts or reminder.run_ts
TargetTs(row) == IF row.utc_ts # None THEN Val(row.utc_ts) ELSE row.run_ts

\* wait_seconds = max(int((target_ts - now).total_seconds()), 60)
WaitSeconds(target_ts, now) == Max2(target_ts - now, MinDelay)

\* variant of the backoff below that grows linearly
LinearBackoff(retries) == Min2(BackoffBase * (retries + 1), BackoffCap)

\* backoff = min(60 * (2 ** self.request.retries), 3600)
Backoff(retries) == Min2(BackoffBase * Pow2(retries), BackoffCap)

\* Task.retry: past max_retries it raises instead of re-enqueueing
RetryExhausted(retries) == retries + 1 > MAX_RETRIES

\* variant of the ceiling test below that gives up one attempt sooner
CeilingEarly(retries) == retries + 1 >= MAX_RETRIES - 1

\* variant of the ceiling test below that allows one more attempt
CeilingPassed(retries) == retries + 1 > MAX_RETRIES

\* the terminal branch of the failure handler: attempts >= MAX_RETRIES
CeilingReached(retries) == retries + 1 >= MAX_RETRIES

\* variant of the status test below that lets ERROR rows through
OnlyCanceled(status) == status = CANCELED

\* if reminder.status != ReminderStatusEnum.SCHEDULED
NotScheduled(status) == status # SCHEDULED

\* variant of the insert below that is lost
RecordNothing(jobs, job) == jobs

\* _record_failed_job: session.add(failed_job), written by the next commit
RecordFailedJob(jobs, job) == Append(jobs, job)

FailedJob(job_name, reminder_id, error_message, attempts) ==
    [job_name |-> job_name, payload |-> [reminder_id |-> reminder_id],
     error_message |-> error_message, attempts |-> attempts]

\* what a finished deliver_reminder invocation leaves in the result backend
Return(inv, result) ==
    [NoReturn EXCEPT !.task = "deliver_reminder", !.rid = inv.rid,
                     !.result = result, !.cid = inv.cid]

\* A worker takes a ready message, loads the reminder and runs the checks
\* that precede the delivery attempt.
WorkerLoad(w, m, now) ==
    /\ worker[w].pc = "idle"
    /\ Ready(m)
    /\ now \in ClockReads
    /\ lagReads' = IF now = clock THEN lagReads ELSE lagReads + 1
    /\ LET q == queue (-) SetToBag({m})
           base == [IdleWorker EXCEPT !.rid = m.rid, !.retries = m.retries,
                                      !.trace_id = m.trace_id, !.now = now,
                                      !.cid = m.trace_id]
       IN IF m.rid \notin DOMAIN store
          THEN \* reminder is None: return False
               /\ last' = Return([base EXCEPT !.cid =
                                     IF m.trace_id # None THEN m.trace_id
                                     ELSE Some(Uuid4(w))], "False")
               /\ queue' = q
               /\ UNCHANGED <<worker, metrics, hist>>
          ELSE LET row == store[m.rid]
                   correlation_id ==
                       IF row.correlation_id # None THEN row.correlation_id
                       ELSE IF m.trace_id # None THEN m.trace_id
                       ELSE Some(Uuid4(w))
                   cur == [base EXCEPT !.cid = correlation_id]
               IN IF NotScheduled(row.status)
                  THEN \* terminal status: log, commit, return True
                       /\ metrics' = IF row.status = CANCELED
                                     THEN [metrics EXCEPT !.reminder_canceled = @ + 1]
                                     ELSE metrics
                       /\ last' = Return(cur, "True")
                       /\ queue' = q
                       /\ UNCHANGED <<worker, hist>>
                  ELSE IF TargetTs(row) > now
                  THEN \* not due yet: session.commit(); raise self.retry(countdown)
                       LET wait_seconds == WaitSeconds(TargetTs(row), now)
                       IN /\ hist' = [hist EXCEPT ![m.rid].early = TRUE]
                          /\ IF RetryExhausted(m.retries)
                             THEN /\ queue' = q
                                  /\ worker' = [worker EXCEPT ![w] =
                                         [cur EXCEPT !.pc = "handler",
                                              !.early = TRUE,
                                              !.exc = "MaxRetriesExceededError"]]
                             ELSE /\ queue' = Enqueue(q,
                                         {Message(m.rid, m.retries + 1,
                                                  m.trace_id, wait_seconds)})
                                  /\ worker' = [worker EXCEPT ![w] =
                                         [cur EXCEPT !.pc = "handler",
                                              !.early = TRUE,
                                              !.exc = "Retry",
                                              !.sent = <<wait_seconds>>]]
                          /\ last' = NoReturn
                          /\ UNCHANGED metrics
                  ELSE IF row.user_id \notin DOMAIN users
                  THEN \* user is None: raise RuntimeError
                       /\ worker' = [worker EXCEPT ![w] =
                              [cur EXCEPT !.pc = "handler", !.exc = "RuntimeError"]]
                       /\ queue' = q
                       /\ last' = NoReturn
                       /\ UNCHANGED <<metrics, hist>>
                  ELSE \* enter attempt_delivery
                       /\ worker' = [worker EXCEPT ![w] = [cur EXCEPT !.pc = "flush"]]
                       /\ queue' = q
                       /\ last' = NoReturn
                       /\ UNCHANGED <<metrics, hist>>
    /\ UNCHANGED <<parseVars, rateVars>>
    /\ UNCHANGED <<clock, store, users, flag, failed_jobs, locks, scanner,
                   cancel, scans, cancels, crashes>>

\* attempt_delivery: reminder.last_attempt_at = now; session.flush()
\* The UPDATE takes the row lock and holds it until commit or rollback.
WorkerFlush(w) ==
    /\ worker[w].pc = "flush"
    /\ locks[worker[w].rid] = Free
    /\ locks' = [locks EXCEPT ![worker[w].rid] = w]
    /\ worker' = [worker EXCEPT ![w].pc = "dispatch"]
    /\ last' = NoReturn
    /\ UNCHANGED <<parseVars, rateVars>>
    /\ UNCHANGED <<clock, store, users, flag, failed_jobs, queue, scanner,
                   cancel, metrics, scans, lagReads, cancels, crashes, hist>>

\* attempt_delivery from dispatch_notifications on, and the commit that
\* follows it in deliver_reminder; on failure the handler's rollback.
WorkerDispatch(w, email_ok, push_ok) ==
    /\ worker[w].pc = "dispatch"
    /\ LET rid == worker[w].rid
           now == worker[w].now
           user == users[store[rid].user_id]
           calls == ChannelCalls(user, email_ok, push_ok)
           delivered == dispatch_notifications(user, email_ok, push_ok)
       IN /\ hist' = [hist EXCEPT ![rid].calls = @ + Len(calls),
                                  ![rid].oks = @ + Successes(calls),
                                  ![rid].dispatched =
                                      IF Len(calls) > 0 THEN @ + 1 ELSE @]
          /\ locks' = [locks EXCEPT ![rid] = Free]
          /\ IF delivered
             THEN /\ store' = [store EXCEPT ![rid].status = SENT,
                                            ![rid].sent_at = Some(now),
                                            ![rid].last_attempt_at = Some(now)]
                  /\ metrics' = [record_latency(metrics, Latency(store[rid], now))
                                    EXCEPT !.reminder_sent = @ + 1]
                  /\ worker' = [worker EXCEPT ![w] = IdleWorker]
                  /\ last' = Return(worker[w], "True")
             ELSE /\ worker' = [worker EXCEPT ![w].pc = "handler",
                                              ![w].exc = "RuntimeError"]
                  /\ last' = NoReturn
                  /\ UNCHANGED <<store, metrics>>
    /\ UNCHANGED <<parseVars, rateVars>>
    /\ UNCHANGED <<clock, users, flag, failed_jobs, queue, scanner, cancel,
                   scans, lagReads, cancels, crashes>>

\* The two except clauses of deliver_reminder, after session.rollback().
WorkerHandle(w) ==
    /\ worker[w].pc = "handler"
    /\ locks[worker[w].rid] = Free
    /\ LET rid == worker[w].rid
           now == worker[w].now
           retries == worker[w].retries
           exc == worker[w].exc
           attempts == retries + 1
           failed == IF exc = "RuntimeError" THEN 1 ELSE 0
       IN IF exc = "MaxRetriesExceededError"
          THEN /\ store' = [store EXCEPT ![rid].status = ERROR,
                                         ![rid].last_attempt_at = Some(now)]
               /\ failed_jobs' = RecordFailedJob(failed_jobs,
                      FailedJob("deliver_reminder", rid, exc, MAX_RETRIES))
               /\ metrics' = [metrics EXCEPT !.reminder_error = @ + 1]
               /\ last' = Return(worker[w], "False")
               /\ UNCHANGED <<queue, hist>>
          ELSE IF CeilingReached(retries)
          THEN /\ store' = [store EXCEPT ![rid].status = ERROR,
                                         ![rid].last_attempt_at = Some(now)]
               /\ failed_jobs' = RecordFailedJob(failed_jobs,
                      FailedJob("deliver_reminder", rid, exc, attempts))
               /\ metrics' = [metrics EXCEPT !.reminder_error = @ + 1]
               /\ last' = Return(worker[w], "False")
               /\ hist' = [hist EXCEPT ![rid].failures = @ + failed]
               /\ UNCHANGED queue
          ELSE LET backoff == Backoff(retries)
               IN /\ store' = [store EXCEPT ![rid].last_attempt_at = Some(now)]
                  /\ queue' = Enqueue(queue,
                         {Message(rid, retries + 1, worker[w].trace_id, backoff)})
                  /\ last' = Return(worker[w], "Retry")
                  /\ hist' = [hist EXCEPT ![rid].failures = @ + failed,
                                          ![rid].backoffs =
                                              IF failed = 1 THEN Append(@, backoff)
                                              ELSE @]
                  /\ UNCHANGED <<failed_jobs, metrics>>
    /\ worker' = [worker EXCEPT ![w] = IdleWorker]
    /\ UNCHANGED <<parseVars, rateVars>>
    /\ UNCHANGED <<clock, users, flag, locks, scanner, cancel, scans,
                   lagReads, cancels, crashes>>

\* The worker process dies during an invocation.  The message was
\* acknowledged when the task started (acks_late is not set), so it is not
\* redelivered; the open transaction is rolled back.  In the handler the
\* process can also die after session.commit() and before what follows it
\* (self.retry, the metric, the return): `committed` tells which.
WorkerCrash(w, committed) ==
    /\ worker[w].pc \in {"flush", "dispatch", "handler"}
    /\ Disturbances < MaxDisturbances
    /\ committed => worker[w].pc = "handler" /\ locks[worker[w].rid] = Free
    /\ LET rid == worker[w].rid
           now == worker[w].now
           retries == worker[w].retries
           exc == worker[w].exc
           failed == IF exc = "RuntimeError" THEN 1 ELSE 0
       IN IF ~committed
          THEN UNCHANGED <<store, failed_jobs, hist>>
          ELSE IF exc = "MaxRetriesExceededError" \/ CeilingReached(retries)
          THEN /\ store' = [store EXCEPT ![rid].status = ERROR,
                                         ![rid].last_attempt_at = Some(now)]
               /\ failed_jobs' = RecordFailedJob(failed_jobs,
                      FailedJob("deliver_reminder", rid, exc,
                                IF exc = "MaxRetriesExceededError"
                                THEN MAX_RETRIES ELSE retries + 1))
               /\ hist' = [hist EXCEPT ![rid].failures = @ + failed]
          ELSE /\ store' = [store EXCEPT ![rid].last_attempt_at = Some(now)]
               /\ hist' = [hist EXCEPT ![rid].failures = @ + failed]
               /\ UNCHANGED failed_jobs
    /\ locks' = [r \in Rids |-> IF locks[r] = w THEN Free ELSE locks[r]]
    /\ worker' = [worker EXCEPT ![w] = IdleWorker]
    /\ crashes' = crashes + 1
    /\ last' = NoReturn
    /\ UNCHANGED <<parseVars, rateVars>>
    /\ UNCHANGED <<clock, users, flag, queue, scanner, cancel, metrics, scans,
                   lagReads, cancels>>

\* ---------------------------------------------------------------------------
\* Specification
\* ---------------------------------------------------------------------------
Next ==
    \/ Tick
    \/ \E s \in Scanners : ScanBegin(s)
    \/ \E s \in Scanners : ScanCommit(s)
    \/ \E s \in Scanners : ScanCrash(s)
    \/ \E r \in Rids, u \in Users : CancelLoad(r, u)
    \/ CancelCommit
    \/ \E w \in Workers : \E m \in BagToSet(queue) : \E now \in ClockReads :
           WorkerLoad(w, m, now)
    \/ \E w \in Workers : WorkerFlush(w)
    \/ \E w \in Workers : \E email_ok, push_ok \in BOOLEAN :
           WorkerDispatch(w, email_ok, push_ok)
    \/ \E w \in Workers : WorkerHandle(w)
    \/ \E w \in Workers : \E committed \in BOOLEAN : WorkerCrash(w, committed)

Spec == Init /\ [][Next]_vars

\* Scheduling: time passes, the beat keeps starting passes, started passes
\* and requests run to their end, the broker hands every ready message to a
\* worker and a worker runs each step of its task.  Crashes, cancel
\* requests and trailing clocks are not owed to anybody.
Fairness ==
    /\ WF_vars(Tick)
    /\ WF_vars(CancelCommit)
    /\ \A s \in Scanners : WF_vars(ScanBegin(s)) /\ WF_vars(ScanCommit(s))
    /\ \A w \in Workers :
          /\ WF_vars(\E m \in BagToSet(queue) : \E now \in ClockReads :
                        WorkerLoad(w, m, now))
          /\ WF_vars(WorkerFlush(w))
          /\ WF_vars(\E email_ok, push_ok \in BOOLEAN :
                        WorkerDispatch(w, email_ok, push_ok))
          /\ WF_vars(WorkerHandle(w))

LiveSpec == Spec /\ Fairness

\* ---------------------------------------------------------------------------
\* Natural-language time parsing: parse_user_time_to_utc
\* ---------------------------------------------------------------------------
\* position of an aware datetime on the time line, in slots
Instant(dt) ==
    ((dt.year * DaysPerYear + (dt.day - 1)) * SlotsPerDay + dt.slot) - dt.tz

\* dt.astimezone(tz)
astimezone(dt, tz) ==
    LET wall == Instant(dt) + tz
        days == wall \div SlotsPerDay
    IN DateTime(days \div DaysPerYear, (days % DaysPerYear) + 1,
                wall % SlotsPerDay, tz)

\* dt + timedelta(days=1)
PlusOneDay(dt) ==
    IF dt.day < DaysPerYear THEN [dt EXCEPT !.day = @ + 1]
    ELSE [dt EXCEPT !.year = @ + 1, !.day = 1]

\* dateparser.parse(text, settings={"PREFER_DATES_FROM": "future",
\* "RELATIVE_BASE": now_local.replace(tzinfo=None)}): the naive datetimes the
\* library can answer with, or none.  A full date is taken as written; a
\* time of day is put on the base's day, and when that is already over the
\* library may put it on the next day instead.
dateparser_parse(txt, base) ==
    IF txt.form = "other" THEN {[ok |-> FALSE, year |-> 0, day |-> 0, slot |-> 0]}
    ELSE IF txt.form = "date"
    THEN {[ok |-> TRUE, year |-> txt.year, day |-> txt.day, slot |-> txt.slot]}
    ELSE LET today == [ok |-> TRUE, year |-> base.year, day |-> base.day,
                       slot |-> txt.slot]
             next == PlusOneDay(today)
         IN {today} \cup (IF txt.slot < base.slot THEN {next} ELSE {})

\* explicit_year = bool(re.search(r"\b\d{4}\b", text))
explicit_year(txt) == txt.form = "date"

Raised(exc) == [NoOutcome EXCEPT !.kind = exc]

Returned(dt) == [kind |-> "returned", value |-> dt]

\* parse_user_time_to_utc(text, now_local), given the library's answer
parse_user_time_to_utc(txt, now, parsed) ==
    IF ~parsed.ok THEN Raised("ValueError")
    ELSE LET aware == DateTime(parsed.year, parsed.day, parsed.slot, LOCAL_TZ)
         IN IF aware.year < now.year /\ explicit_year(txt)
            THEN Raised("ValueError")
            ELSE LET this_year == IF aware.year < now.year
                                  THEN [aware EXCEPT !.year = now.year]
                                  ELSE aware
                     rolled == IF Instant(this_year) < Instant(now)
                               THEN PlusOneDay(this_year)
                               ELSE this_year
                 IN Returned(astimezone(rolled, UTC_TZ))

ParseInit ==
    /\ text \in Texts
    /\ now_local \in LocalNows
    /\ parse_out = NoOutcome
    /\ ReminderAtRest
    /\ RateAtRest

\* one call of parse_user_time_to_utc(text, now_local)
ParseCall ==
    /\ parse_out.kind = "pending"
    /\ \E parsed \in dateparser_parse(text, now_local) :
          parse_out' = parse_user_time_to_utc(text, now_local, parsed)
    /\ UNCHANGED <<text, now_local, reminderVars, rateVars>>

ParseNext == ParseCall

ParseSpec == ParseInit /\ [][ParseNext]_vars

\* ---------------------------------------------------------------------------
\* Rate limiter: RateLimiter.check
\* ---------------------------------------------------------------------------
\* _rate_limiter builds the limiter with 10 calls per 60 s and 60 calls per
\* 3600 s; check is the same code for every RateLimitConfig, and the
\* configurations here keep the shape (sustained window longer than the
\* burst window) with limits small enough to be exceeded.
LimitOf(k) ==
    IF k = "burst" THEN config.burst_limit ELSE config.sustained_limit

WindowOf(k) ==
    IF k = "burst" THEN config.burst_window_seconds
    ELSE config.sustained_window_seconds

\* redis.incr(name): creates the key at 1 without expiry, else adds one
incr(r, k) ==
    [r EXCEPT ![k] = [count |-> @.count + 1,
                      ttl |-> IF @.count = 0 THEN -1 ELSE @.ttl]]

\* redis.expire(name, time)
expire(r, k, time) ==
    IF r[k].count = 0 THEN r ELSE [r EXCEPT ![k].ttl = time]

\* variant of the comparison below that lets one more call through
OverLimitByTwo(current, limit) == current > limit + 1

\* burst_count > self._config.burst_limit, and the same for sustained
OverLimit(current, limit) == current > limit

Exceeded(c, k) == [caller |-> c, result |-> "RateLimitExceeded", window |-> k]

\* the burst comparison after _check_window(burst_key, ...) returned current
AfterBurst(c, current) ==
    IF OverLimit(current, config.burst_limit)
    THEN /\ caller' = [caller EXCEPT ![c] = IdleCaller]
         /\ rl_last' = Exceeded(c, "burst")
    ELSE /\ caller' = [caller EXCEPT ![c].pc = "sustained_incr",
                                     ![c].current = current,
                                     ![c].counted["burst"] = TRUE]
         /\ rl_last' = NoResult

\* the sustained comparison and the end of check
AfterSustained(c, current) ==
    /\ caller' = [caller EXCEPT ![c] = IdleCaller]
    /\ IF OverLimit(current, config.sustained_limit)
       THEN /\ rl_last' = Exceeded(c, "sustained")
            /\ UNCHANGED admitted
       ELSE /\ rl_last' = [caller |-> c, result |-> "None", window |-> "none"]
            /\ admitted' = [admitted EXCEPT
                   !["burst"] = IF caller[c].counted["burst"] THEN @ + 1 ELSE @,
                   !["sustained"] = @ + 1]

RateInit ==
    /\ config \in RateLimitConfigs
    /\ redis = EmptyRedis
    /\ caller = [c \in Callers |-> IdleCaller]
    /\ admitted = [k \in Keys |-> 0]
    /\ rl_last = NoResult
    /\ ReminderAtRest
    /\ ParseAtRest

\* check, up to the INCR of the burst key in _check_window
BurstIncr(c) ==
    /\ caller[c].pc = "idle"
    /\ redis["burst"].count < MaxCount
    /\ redis' = incr(redis, "burst")
    /\ LET current == redis'["burst"].count
       IN IF current = 1
          THEN /\ caller' = [caller EXCEPT ![c].pc = "burst_expire",
                                           ![c].current = current,
                                           ![c].counted["burst"] = TRUE]
               /\ rl_last' = NoResult
          ELSE AfterBurst(c, current)
    /\ UNCHANGED <<config, admitted, reminderVars, parseVars>>

\* _check_window: the EXPIRE of the burst key, then the burst comparison
BurstExpire(c) ==
    /\ caller[c].pc = "burst_expire"
    /\ redis' = expire(redis, "burst", config.burst_window_seconds)
    /\ AfterBurst(c, caller[c].current)
    /\ UNCHANGED <<config, admitted, reminderVars, parseVars>>

\* the INCR of the sustained key
SustainedIncr(c) ==
    /\ caller[c].pc = "sustained_incr"
    /\ redis["sustained"].count < MaxCount
    /\ redis' = incr(redis, "sustained")
    /\ LET current == redis'["sustained"].count
       IN IF current = 1
          THEN /\ caller' = [caller EXCEPT ![c].pc = "sustained_expire",
                                           ![c].current = current,
                                           ![c].counted["sustained"] = TRUE]
               /\ rl_last' = NoResult
               /\ UNCHANGED admitted
          ELSE AfterSustained(c, current)
    /\ UNCHANGED <<config, reminderVars, parseVars>>

\* the EXPIRE of the sustained key, then the sustained comparison
SustainedExpire(c) ==
    /\ caller[c].pc = "sustained_expire"
    /\ redis' = expire(redis, "sustained", config.sustained_window_seconds)
    /\ AfterSustained(c, caller[c].current)
    /\ UNCHANGED <<config, reminderVars, parseVars>>

\* the calling process dies inside check
CallerCrash(c) ==
    /\ caller[c].pc # "idle"
    /\ caller' = [caller EXCEPT ![c] = IdleCaller]
    /\ rl_last' = NoResult
    /\ UNCHANGED <<config, redis, admitted, reminderVars, parseVars>>

\* One time unit passes: Redis counts the keys' times to live down and
\* deletes a key whose time is up.
RateTick ==
    /\ \E k \in Keys : redis[k].ttl > 0
    /\ redis' = [k \in Keys |->
           IF redis[k].ttl > 1 THEN [redis[k] EXCEPT !.ttl = @ - 1]
           ELSE IF redis[k].ttl = 1 THEN MissingKey
           ELSE redis[k]]
    /\ admitted' = [k \in Keys |-> IF redis[k].ttl = 1 THEN 0 ELSE admitted[k]]
    /\ caller' = [c \in Callers |->
           [caller[c] EXCEPT !.counted =
               [k \in Keys |-> IF redis[k].ttl = 1 THEN FALSE ELSE @[k]]]]
    /\ rl_last' = NoResult
    /\ UNCHANGED <<config, reminderVars, parseVars>>

RateNext ==
    \/ \E c \in Callers : BurstIncr(c)
    \/ \E c \in Callers : BurstExpire(c)
    \/ \E c \in Callers : SustainedIncr(c)
    \/ \E c \in Callers : SustainedExpire(c)
    \/ \E c \in Callers : CallerCrash(c)
    \/ RateTick

RateSpec == RateInit /\ [][RateNext]_vars

\* ---------------------------------------------------------------------------
\* Observations used by the properties
\* ---------------------------------------------------------------------------
\* failed_jobs rows written for reminder r
DeadLettersFor(r) ==
    {i \in 1..Len(failed_jobs) : failed_jobs[i].payload.reminder_id = r}

\* a deliver_reminder invocation for r is running
ActiveOn(r) == \E w \in Workers : worker[w].pc # "idle" /\ worker[w].rid = r

\* r was enqueued by exactly one scanner pass, none of its invocations ran
\* ahead of the target time, and no cancel request was made
SingleChain(r) == hist[r].chains = 1 /\ ~hist[r].early /\ cancels = 0

\* the owner of r has neither an email address nor a push token, and the
\* multi-channel flag is on
NoDestination(r) ==
    /\ flag
    /\ ~users[store[r].user_id].email
    /\ ~users[store[r].user_id].push_token

\* ---------------------------------------------------------------------------
\* Properties
\* ---------------------------------------------------------------------------
C1_Selected(r) ==
    /\ store[r].status = SCHEDULED
    /\ store[r].utc_ts # None
    /\ Val(store[r].utc_ts) <= clock
    /\ locks[r] = Free

\* C1: one scanner pass enqueues exactly one delivery invocation (retry
\* index 0) for each reminder that is SCHEDULED, due (utc_ts <= now) and not
\* row-locked by another transaction, none for any other reminder, and
\* send_due_reminders returns the number of invocations the pass enqueued.
C1_ScanEnqueuesEachDueOnce ==
    [][\A s \in Scanners :
         /\ ScanBegin(s) =>
              /\ \A r \in Rids :
                    QueuedFor(queue', r) =
                        QueuedFor(queue, r) + (IF C1_Selected(r) THEN 1 ELSE 0)
              /\ \A m \in BagToSet(queue') :
                    CopiesIn(m, queue') > CopiesIn(m, queue) =>
                        m.retries = 0 /\ m.eta = clock
              /\ Cardinality(scanner'[s].scheduled_ids) =
                    BagCardinality(queue') - BagCardinality(queue)
         /\ ScanCommit(s) =>
              /\ last'.task = "send_due_reminders"
              /\ last'.count = Cardinality(scanner[s].scheduled_ids)
              /\ queue' = queue]_vars

\* a pass has returned 1: it enqueued r1 and passed over the canceled, due r2
C1_Witness ==
    /\ last.task = "send_due_reminders"
    /\ last.count = 1
    /\ QueuedFor(queue, "r1") = 1
    /\ QueuedFor(queue, "r2") = 0
    /\ store["r2"].status = CANCELED
    /\ Val(store["r2"].utc_ts) <= clock

\* C2: a delivery invocation that finds its reminder CANCELED or ERROR, at
\* any retry index, returns success in that one step: no channel is called,
\* no field of the reminder changes, no failed_jobs row is written and
\* nothing is enqueued.
C2_TerminalStatusIsNoop ==
    [][\A w \in Workers : \A m \in BagToSet(queue) : \A now \in ClockReads :
         (/\ WorkerLoad(w, m, now)
          /\ m.rid \in DOMAIN store
          /\ store[m.rid].status \in {CANCELED, ERROR})
         => /\ last'.task = "deliver_reminder"
            /\ last'.rid = m.rid
            /\ last'.result = "True"
            /\ worker'[w].pc = "idle"
            /\ store' = store
            /\ failed_jobs' = failed_jobs
            /\ queue' = queue (-) SetToBag({m})
            /\ \A r \in Rids : hist'[r].calls = hist[r].calls]_vars

\* an invocation at a retry index above 0 has just returned success on a
\* reminder in ERROR
C2_Witness ==
    /\ last.task = "deliver_reminder"
    /\ last.result = "True"
    /\ store[last.rid].status = ERROR
    /\ failed_jobs # <<>>

\* C3: once a reminder's committed status is SENT or ERROR, no step changes
\* it, overlapping cancel requests and delivery invocations included.
C3_SentAndErrorAreFinal ==
    [][\A r \in Rids :
         store[r].status \in {SENT, ERROR} => store'[r].status = store[r].status]_vars

\* C4: when a cancel request has committed CANCELED while a delivery attempt
\* for the same reminder is past its status check and before its commit, the
\* attempt completes without changing the status away from CANCELED.
C4_AttemptKeepsCanceled ==
    [][\A w \in Workers :
         (/\ worker[w].pc \in {"flush", "dispatch", "handler"}
          /\ store[worker[w].rid].status = CANCELED)
         => store'[worker[w].rid].status = CANCELED]_vars

\* C5: in a single delivery chain in which every channel dispatch fails, the
\* reminder is ERROR after exactly 5 failed invocations and not before, with
\* exactly one failed_jobs row for it and no further invocation enqueued or
\* running.
C5_FiveFailuresThenError ==
    \A r \in Rids :
        SingleChain(r) =>
            /\ hist[r].failures <= 5
            /\ hist[r].failures = 5 =>
                  /\ store[r].status = ERROR
                  /\ Cardinality(DeadLettersFor(r)) = 1
                  /\ QueuedFor(queue, r) = 0
                  /\ ~ActiveOn(r)
            /\ hist[r].failures < 5 =>
                  /\ store[r].status # ERROR
                  /\ DeadLettersFor(r) = {}

\* five dispatches to the push channel failed one after the other
C5_Witness ==
    /\ SingleChain("r1")
    /\ hist["r1"].failures = 5
    /\ hist["r1"].calls = 5
    /\ store["r1"].status = ERROR
    /\ Len(failed_jobs) = 1

\* C6 as stated: with the multi-channel flag on and a user without any
\* destination, the invocation is re-enqueued 5 times and the sixth
\* invocation (retry index 5) sets ERROR and writes the failed_jobs row.
C6_SixthInvocationSetsError ==
    \A r \in Rids :
        (SingleChain(r) /\ NoDestination(r) /\ store[r].status = ERROR) =>
            /\ Len(hist[r].backoffs) = 5
            /\ hist[r].failures = 6
            /\ \A i \in DeadLettersFor(r) : failed_jobs[i].attempts = 6

\* C6 amended: with the multi-channel flag on and a user without any
\* destination, no channel is called and the reminder is never SENT; the
\* invocation is re-enqueued 4 times with backoffs 60, 120, 240, 480 and the
\* fifth invocation (retry index 4) sets ERROR and writes the single
\* failed_jobs row.
C6_FifthInvocationSetsError ==
    \A r \in Rids :
        (SingleChain(r) /\ NoDestination(r)) =>
            /\ hist[r].calls = 0
            /\ store[r].status # SENT
            /\ Len(hist[r].backoffs) <= 4
            /\ \A i \in 1..Len(hist[r].backoffs) :
                  hist[r].backoffs[i] = <<60, 120, 240, 480>>[i]
            /\ store[r].status = ERROR <=> hist[r].failures = 5
            /\ store[r].status = ERROR =>
                  /\ Len(hist[r].backoffs) = 4
                  /\ Cardinality(DeadLettersFor(r)) = 1
                  /\ \A i \in DeadLettersFor(r) :
                        failed_jobs[i].attempts = 5

\* the chain of a user without destination has ended in ERROR
C6_Witness ==
    /\ SingleChain("r1")
    /\ NoDestination("r1")
    /\ store["r1"].status = ERROR
    /\ hist["r1"].backoffs = <<60, 120, 240, 480>>
    /\ Len(failed_jobs) = 1

\* C7: when a delivery invocation on a SCHEDULED, due reminder gets at least
\* one channel success, it sets status SENT and sent_at to its `now`,
\* returns success, increments reminder_sent by exactly one and records
\* exactly one latency sample equal to max(sent_at - utc_ts, 0).
C7_SuccessMarksSentOnce ==
    [][\A w \in Workers : \A email_ok, push_ok \in BOOLEAN :
         (/\ WorkerDispatch(w, email_ok, push_ok)
          /\ AnyTrue(ChannelCalls(users[store[worker[w].rid].user_id],
                                  email_ok, push_ok)))
         => LET rid == worker[w].rid
                sample == Max2(Val(store'[rid].sent_at) - Val(store[rid].utc_ts), 0)
            IN /\ store'[rid].status = SENT
               /\ store'[rid].sent_at = Some(worker[w].now)
               /\ last'.task = "deliver_reminder"
               /\ last'.result = "True"
               /\ worker'[w].pc = "idle"
               /\ metrics'.reminder_sent = metrics.reminder_sent + 1
               /\ metrics'.reminder_error = metrics.reminder_error
               /\ metrics'.reminder_latency_count =
                      metrics.reminder_latency_count + 1
               /\ metrics'.reminder_latency_sum =
                      metrics.reminder_latency_sum + sample
               /\ metrics'.bucket["le_inf"] = metrics.bucket["le_inf"] + 1]_vars

\* the third invocation of a chain delivered over the push channel, 180
\* seconds after the target time
C7_Witness ==
    /\ last.task = "deliver_reminder"
    /\ last.result = "True"
    /\ store["r1"].status = SENT
    /\ store["r1"].sent_at = Some(240)
    /\ hist["r1"].failures = 2
    /\ metrics.reminder_sent = 1
    /\ metrics.reminder_latency_count = 1
    /\ metrics.reminder_latency_sum = 180

\* C8: an invocation at any retry index 0..4 that finds its SCHEDULED
\* reminder's target time still ahead leaves the status as it is, writes no
\* failed_jobs row and records no failure.
C8_EarlyInvocationNeverFails ==
    [][\A w \in Workers :
         (/\ WorkerHandle(w)
          /\ worker[w].early
          /\ worker[w].retries \in 0..4)
         => /\ store'[worker[w].rid].status = store[worker[w].rid].status
            /\ failed_jobs' = failed_jobs
            /\ metrics'.reminder_error = metrics.reminder_error]_vars

\* C9: an invocation that finds its SCHEDULED reminder's target time still
\* ahead enqueues exactly one follow-up, with countdown max(remaining, 60),
\* and no second follow-up with the failure backoff.
C9_EarlyInvocationOneFollowUp ==
    [][\A w \in Workers :
         /\ (worker[w].pc = "idle" /\ worker'[w].early) =>
               LET inv == worker'[w]
                   remaining == TargetTs(store[inv.rid]) - inv.now
                   follow == [rid |-> inv.rid, retries |-> inv.retries + 1,
                              trace_id |-> inv.trace_id,
                              eta |-> clock + Max2(remaining, 60)]
               IN \E m \in BagToSet(queue) :
                     /\ m.rid = inv.rid /\ m.retries = inv.retries
                     /\ queue' = (queue (-) SetToBag({m})) (+) SetToBag({follow})
         /\ (WorkerHandle(w) /\ worker[w].early) => queue' = queue]_vars

\* C10: in one delivery chain the countdown used to re-enqueue after the
\* failed invocation at retry index k is min(60 * 2^k, 3600); the countdowns
\* never decrease along the chain and never exceed 3600.
C10_BackoffSchedule ==
    \A r \in Rids :
        (hist[r].chains = 1 /\ ~hist[r].early) =>
            \A i \in 1..Len(hist[r].backoffs) :
                /\ hist[r].backoffs[i] = Min2(60 * Pow2(i - 1), 3600)
                /\ hist[r].backoffs[i] <= 3600
                /\ i > 1 => hist[r].backoffs[i - 1] <= hist[r].backoffs[i]

\* a chain has been re-enqueued after failures at retry indices 0, 1, 2, 3
C10_Witness ==
    /\ hist["r1"].chains = 1
    /\ ~hist["r1"].early
    /\ hist["r1"].backoffs = <<60, 120, 240, 480>>
    /\ hist["r1"].calls > 0

C12_DispatchResult ==
    [][\A w \in Workers : \A email_ok, push_ok \in BOOLEAN :
         WorkerDispatch(w, email_ok, push_ok) =>
            LET rid == worker[w].rid
                user == users[store[rid].user_id]
                expected ==
                    IF ~flag THEN TRUE
                    ELSE IF ~user.email /\ ~user.push_token THEN FALSE
                    ELSE (user.email /\ email_ok) \/ (user.push_token /\ push_ok)
            IN IF expected
               THEN /\ worker'[w].pc = "idle"
                    /\ last'.result = "True"
                    /\ store'[rid].status = SENT
               ELSE /\ worker'[w].pc = "handler"
                    /\ worker'[w].exc = "RuntimeError"
                    /\ store' = store]_vars

\* a dispatch to a user with both destinations has failed on both channels
C12_Witness ==
    \E w \in Workers :
        /\ worker[w].pc = "handler"
        /\ worker[w].exc = "RuntimeError"
        /\ flag
        /\ users[store[worker[w].rid].user_id].email
        /\ users[store[worker[w].rid].user_id].push_token
        /\ hist[worker[w].rid].calls = 2
        /\ hist[worker[w].rid].oks = 0

C14_AbsentReminderIsSuccess ==
    [][\A w \in Workers : \A m \in BagToSet(queue) : \A now \in ClockReads :
         (WorkerLoad(w, m, now) /\ m.rid \notin DOMAIN store)
         => /\ last'.task = "deliver_reminder"
            /\ last'.result = "True"
            /\ worker'[w].pc = "idle"
            /\ store' = store
            /\ failed_jobs' = failed_jobs
            /\ queue' = queue (-) SetToBag({m})
            /\ hist' = hist]_vars

\* C15: two scanner passes whose transactions overlap never both claim the
\* same reminder: a pass claims only rows it has locked itself, and a row
\* locked by one pass is skipped by the other.
C15_NoDoubleClaim ==
    \A s \in Scanners :
        scanner[s].pc = "claimed" =>
            /\ \A r \in scanner[s].scheduled_ids : locks[r] = s
            /\ \A t \in Scanners \ {s} :
                  scanner[t].pc = "claimed" =>
                      scanner[s].scheduled_ids \cap scanner[t].scheduled_ids = {}

\* one pass holds the due r1 and an overlapping pass has selected nothing
C15_Witness ==
    /\ scanner["s1"].pc = "claimed"
    /\ scanner["s1"].scheduled_ids = {"r1"}
    /\ scanner["s2"].pc = "claimed"
    /\ scanner["s2"].scheduled_ids = {}
    /\ scanner["s2"].now >= Val(store["r1"].utc_ts)
    /\ store["r1"].status = SCHEDULED

\* C16: for one reminder, under any interleaving of its deliver_reminder
\* invocations, at most one invocation is past the SCHEDULED status check
\* and on its way to the channels.
C16_OneInvocationPastCheck ==
    \A r \in Rids :
        Cardinality({w \in Workers : /\ worker[w].rid = r
                                     /\ worker[w].pc \in {"flush", "dispatch"}}) <= 1

\* C17: the claim of a scanner pass and its enqueue take effect together or
\* not at all, also when the pass crashes: outside an open pass, a reminder
\* for which a pass has enqueued an invocation carries that pass's claim.
C17_EnqueueOnlyWithClaim ==
    \A r \in Rids :
        (hist[r].chains > 0 /\ locks[r] \notin Scanners) =>
            store[r].last_attempt_at # None

\* C18: in every committed state, also after a crash in the failure path, a
\* reminder in ERROR has a failed_jobs row, and no reminder with a
\* failed_jobs row is SCHEDULED.
C18_ErrorWithDeadLetter ==
    \A r \in Rids :
        /\ store[r].status = ERROR => DeadLettersFor(r) # {}
        /\ DeadLettersFor(r) # {} => store[r].status # SCHEDULED

\* the worker died right after committing ERROR and the failed_jobs row,
\* before it counted the error
C18_Witness ==
    /\ crashes = 1
    /\ store["r1"].status = ERROR
    /\ Cardinality(DeadLettersFor("r1")) = 1
    /\ metrics.reminder_error = 0

\* C19: under fair scheduling of the beat, the queue and the workers, every
\* reminder that is SCHEDULED and due eventually is SENT, ERROR or CANCELED.
C19_DueReminderEventuallySettled ==
    \A r \in Rids :
        (store[r].status = SCHEDULED /\ Val(store[r].utc_ts) <= clock)
            ~> (store[r].status \in {SENT, ERROR, CANCELED})

\* a worker died between committing the first failed attempt and
\* re-enqueueing; a later pass claimed the reminder again and that chain
\* ended in ERROR
C19_Witness ==
    /\ crashes = 1
    /\ hist["r1"].chains = 2
    /\ hist["r1"].failures = 6
    /\ Len(hist["r1"].backoffs) = 4
    /\ store["r1"].status = ERROR

\* C20: once a reminder has a correlation id no step changes it, every
\* invocation for the reminder runs under the stored id whatever trace id it
\* was enqueued with, and a scanner pass gives an id to a claimed reminder
\* that has none.
C20_CorrelationIdStable ==
    [][/\ \A r \in Rids :
            store[r].correlation_id # None =>
                store'[r].correlation_id = store[r].correlation_id
       /\ \A w \in Workers : \A m \in BagToSet(queue) : \A now \in ClockReads :
            (/\ WorkerLoad(w, m, now)
             /\ m.rid \in DOMAIN store
             /\ store[m.rid].correlation_id # None)
            => (IF worker'[w].pc # "idle" THEN worker'[w].cid ELSE last'.cid)
                   = store[m.rid].correlation_id
       /\ \A w \in Workers :
            (worker[w].pc # "idle" /\ worker'[w].pc # "idle") =>
                worker'[w].cid = worker[w].cid
       /\ \A s \in Scanners :
            ScanCommit(s) =>
                \A r \in scanner[s].scheduled_ids :
                    store'[r].correlation_id # None]_vars

\* an invocation enqueued with the trace id of a pass that crashed runs under
\* the id a later pass stored
C20_Witness ==
    \E w \in Workers :
        /\ worker[w].pc # "idle"
        /\ store[worker[w].rid].correlation_id # None
        /\ worker[w].cid = store[worker[w].rid].correlation_id
        /\ worker[w].trace_id # worker[w].cid

\* C21: over the whole lifetime of a reminder, across all scanner passes and
\* retry chains, the number of deliver_reminder invocations that called a
\* notification channel never exceeds MAX_RETRIES.
C21_DispatchesBounded ==
    \A r \in Rids : hist[r].dispatched <= MAX_RETRIES

\* C23: a deliver_reminder invocation with retry index k that fails on a due
\* SCHEDULED reminder (no channel succeeded) ends in exactly one of two
\* ways: if k + 1 < MAX_RETRIES the status is left as it was, no failed_jobs
\* row is written and exactly one invocation with retry index k + 1 is
\* enqueued; otherwise the status becomes ERROR, one failed_jobs row is
\* written and nothing is enqueued.
C23_RetryOrErrorNeverBoth ==
    [][\A w \in Workers :
         (WorkerHandle(w) /\ worker[w].exc = "RuntimeError") =>
            LET rid == worker[w].rid
                k == worker[w].retries
            IN IF k + 1 < MAX_RETRIES
               THEN /\ store'[rid].status = store[rid].status
                    /\ failed_jobs' = failed_jobs
                    /\ \E m \in BagToSet(queue') :
                          /\ m.rid = rid
                          /\ m.retries = k + 1
                          /\ queue' = queue (+) SetToBag({m})
               ELSE /\ store'[rid].status = ERROR
                    /\ Len(failed_jobs') = Len(failed_jobs) + 1
                    /\ Cardinality(DeadLettersFor(rid)') =
                           Cardinality(DeadLettersFor(rid)) + 1
                    /\ queue' = queue]_vars

\* both ends were taken in one chain: the invocation with retry index 3 was
\* re-enqueued with the last backoff, and the one with index 4 set ERROR
C23_Witness ==
    /\ hist["r1"].chains = 1
    /\ hist["r1"].backoffs = <<60, 120, 240, 480>>
    /\ hist["r1"].failures = 5
    /\ store["r1"].status = ERROR
    /\ Cardinality(DeadLettersFor("r1")) = 1
    /\ QueuedFor(queue, "r1") = 0
    /\ last.result = "False"

\* C24: every failed_jobs row names the job deliver_reminder, carries the id
\* of a reminder in ERROR and the error text, and records MAX_RETRIES
\* attempts, no more than the reminder has had failed invocations; the
\* reminder_error counter equals the number of rows written.
C24_DeadLetterContents ==
    /\ \A i \in 1..Len(failed_jobs) :
          LET job == failed_jobs[i]
              rid == job.payload.reminder_id
          IN /\ job.job_name = "deliver_reminder"
             /\ rid \in Rids
             /\ job.error_message \in {"RuntimeError", "Retry",
                                       "MaxRetriesExceededError"}
             /\ job.attempts = MAX_RETRIES
             /\ hist[rid].failures >= job.attempts
    /\ metrics.reminder_error = Len(failed_jobs)

\* C25: a scanner pass changes only last_attempt_at (to the pass's now) and
\* correlation_id (only when absent) of the reminders it claims; it never
\* changes a status or a sent_at, leaves every unclaimed reminder unchanged
\* and writes no failed_jobs row; and no step of the scanner or the worker
\* changes or removes a failed_jobs row already written.
C25_ScannerFrame ==
    [][/\ \A s \in Scanners :
            (ScanBegin(s) \/ ScanCrash(s)) =>
                store' = store /\ failed_jobs' = failed_jobs
       /\ \A s \in Scanners :
            ScanCommit(s) =>
                /\ failed_jobs' = failed_jobs
                /\ \A r \in Rids :
                      IF r \in scanner[s].scheduled_ids
                      THEN /\ store'[r].last_attempt_at = Some(scanner[s].now)
                           /\ store'[r].correlation_id # None
                           /\ store[r].correlation_id # None =>
                                 store'[r].correlation_id = store[r].correlation_id
                           /\ store'[r].status = store[r].status
                           /\ store'[r].sent_at = store[r].sent_at
                           /\ store'[r].user_id = store[r].user_id
                           /\ store'[r].run_ts = store[r].run_ts
                           /\ store'[r].utc_ts = store[r].utc_ts
                      ELSE store'[r] = store[r]
       /\ Len(failed_jobs') >= Len(failed_jobs)
       /\ SubSeq(failed_jobs', 1, Len(failed_jobs)) = failed_jobs]_vars

\* a pass re-claimed a reminder that already had its correlation id, and
\* two failed_jobs rows have been written one after the other
C25_Witness ==
    /\ hist["r1"].chains = 2
    /\ store["r1"].correlation_id = Some("uuid4-s1")
    /\ store["r1"].last_attempt_at # None
    /\ Len(failed_jobs) = 2

\* C26: under any interleaving of scanner passes and deliver_reminder
\* invocations, at most one failed_jobs row exists per reminder id.
C26_OneDeadLetterPerReminder ==
    \A r \in Rids : Cardinality(DeadLettersFor(r)) <= 1

\* C27: no notification channel is called for a reminder by an invocation
\* whose now is earlier than the reminder's target time: an invocation that
\* is about to dispatch, or has dispatched, read a now at or after utc_ts.
C27_NoEarlyDelivery ==
    \A w \in Workers :
        (worker[w].pc \in {"flush", "dispatch"}
         \/ (worker[w].pc = "handler" /\ worker[w].exc = "RuntimeError")) =>
            /\ store[worker[w].rid].utc_ts # None
            /\ Val(store[worker[w].rid].utc_ts) <= worker[w].now

\* an invocation that read a trailing clock found the reminder not due and
\* called no channel; a later one, at the target time or after, dispatches
C27_Witness ==
    \E w \in Workers :
        /\ worker[w].pc = "dispatch"
        /\ hist[worker[w].rid].early
        /\ hist[worker[w].rid].calls = 0
        /\ worker[w].now >= Val(store[worker[w].rid].utc_ts)

\* C28: for each reminder the SCHEDULED to SENT transition is committed by
\* at most one invocation: no step commits SENT for a reminder that already
\* has a sent_at, and the reminder_sent counter never exceeds the number of
\* reminders that were sent.
C28_SentCommittedOnce ==
    [][/\ \A w \in Workers : \A email_ok, push_ok \in BOOLEAN :
            (/\ WorkerDispatch(w, email_ok, push_ok)
             /\ store'[worker[w].rid].status = SENT
             /\ worker'[w].pc = "idle")
            => store[worker[w].rid].sent_at = None
       /\ \A r \in Rids :
            store[r].sent_at # None => store'[r].sent_at = store[r].sent_at
       /\ metrics'.reminder_sent
              <= Cardinality({r \in Rids : store'[r].sent_at # None})]_vars

\* C29: a cancel request changes a reminder only when the reminder belongs
\* to the caller and its status is SCHEDULED, and then only its status, to
\* CANCELED; for an absent or foreign reminder it reports not-found and for
\* a reminder already SENT, CANCELED or ERROR it is a no-op, both without
\* changing anything.
C29_CancelFrame ==
    [][/\ \A r \in Rids : \A u \in Users :
            CancelLoad(r, u) =>
                /\ store' = store
                /\ (r \notin DOMAIN store \/ store[r].user_id # u) =>
                       last'.result = "not_found" /\ cancel' = cancel
                /\ (/\ r \in DOMAIN store
                    /\ store[r].user_id = u
                    /\ store[r].status \in {SENT, CANCELED, ERROR}) =>
                       last'.result = "noop" /\ cancel' = cancel
       /\ CancelCommit =>
            /\ store[cancel.rid].status = SCHEDULED
            /\ store' = [store EXCEPT ![cancel.rid].status = CANCELED]]_vars

\* C22: whenever parse_user_time_to_utc returns, the returned instant is
\* strictly later than now_local; a text naming an explicit year earlier
\* than now_local's year makes it raise.
C22_ReturnedInstantIsFuture ==
    /\ parse_out.kind = "returned" =>
           Instant(parse_out.value) > Instant(now_local)
    /\ (/\ parse_out.kind # "pending"
        /\ text.form = "date"
        /\ text.year < now_local.year) => parse_out.kind = "ValueError"

\* C30: for one identifier, within one lifetime of the burst key at most
\* burst_limit calls counted in it return without raising, and within one
\* lifetime of the sustained key at most sustained_limit; a call rejected
\* by the burst limit leaves the sustained key alone; and a key's expiry is
\* set only by the call whose INCR took the count to 1.
C30_WindowLimits ==
    [][/\ \A k \in Keys : admitted'[k] <= LimitOf(k)
       /\ (rl_last'.result = "RateLimitExceeded" /\ rl_last'.window = "burst")
              => redis'["sustained"] = redis["sustained"]
       /\ \A k \in Keys :
            (redis[k].count > 0 /\ redis'[k].ttl > redis[k].ttl) =>
                /\ redis[k].ttl = -1
                /\ redis'[k].ttl = WindowOf(k)
                /\ \E c \in Callers :
                      /\ caller[c].pc = k \o "_expire"
                      /\ caller[c].current = 1
                      /\ caller'[c].pc # caller[c].pc]_vars

\* in a second burst window the sustained limit rejects a call that the
\* burst limit let through, with both windows full
C30_Witness ==
    /\ rl_last.result = "RateLimitExceeded"
    /\ rl_last.window = "sustained"
    /\ admitted["sustained"] = config.sustained_limit
    /\ admitted["burst"] < admitted["sustained"]
    /\ redis["sustained"].count = config.sustained_limit + 1
    /\ redis["sustained"].ttl > 0
    /\ redis["burst"].ttl > 0

====
